---- MODULE Spec2Model ----
(***************************************************************************)
(* Model of the k8s-namespace-guard admission webhook: flag parsing and    *)
(* cluster-client configuration (main), the webhook handler, and the       *)
(* per-kind resource census of validateNamespaceDeletion.                  *)
(***************************************************************************)
EXTENDS Integers, Sequences, FiniteSets, TLC

\* Largest object count a list query returns in the model.
MaxCount == 1

(***************************************************************************)
(* Program constants                                                       *)
(***************************************************************************)
bypassAnnotationKey == "k8s-namespace-guard.admission.yahoo.com/allow-cascade-delete"

namespaceResourceType == [Group |-> "", Version |-> "v1", Resource |-> "namespaces"]

\* The counters table of validateNamespaceDeletion, in declaration order.
counters ==
  << "pods", "services", "replicasets", "deployments",
     "statefulsets", "daemonsets", "ingresses", "horizontalpodautoscalers" >>

Delete == "DELETE"

(***************************************************************************)
(* Inputs                                                                  *)
(***************************************************************************)
Methods == {"POST", "GET"}

Paths == {"/", "/other"}

Operations == {"CREATE", "UPDATE", "DELETE", "CONNECT"}

Names == {"ns3"}

GroupVersionResources ==
  [Group : {"", "apps"}, Version : {"v1", "v1beta1"}, Resource : {"namespaces", "pods"}]

\* A nil *AdmissionRequest.
NilRequest ==
  [isNil |-> TRUE, Resource |-> [Group |-> "", Version |-> "", Resource |-> ""],
   Operation |-> "", Name |-> ""]

\* new(admissionv1.AdmissionRequest): a non-nil zero value.
NewRequest ==
  [isNil |-> FALSE, Resource |-> [Group |-> "", Version |-> "", Resource |-> ""],
   Operation |-> "", Name |-> ""]

AdmissionRequests ==
  [isNil : {FALSE}, Resource : GroupVersionResources, Operation : Operations, Name : Names]

\* Request bodies: bytes that are not JSON for an AdmissionReview, a review
\* envelope without a request object, and an envelope carrying a request.
Bodies ==
  {[valid |-> FALSE, Request |-> NilRequest]}
    \cup {[valid |-> TRUE, Request |-> r] : r \in AdmissionRequests \cup {NilRequest}}

HTTPRequests == [Method : Methods, Path : Paths, Body : Bodies]

\* Namespace annotations: a nil map, or a map given as a set of <<key, value>>.
AnnotationMaps ==
  {[isNil |-> TRUE, m |-> {}]}
    \cup {[isNil |-> FALSE, m |-> {<<bypassAnnotationKey, v>>}] : v \in {"true", "True", "1"}}

\* Outcomes of clientset.CoreV1().Namespaces().Get
GetOutcomes ==
  {[err |-> e, annotations |-> [isNil |-> TRUE, m |-> {}]] : e \in {"NotFound", "Timeout"}}
    \cup {[err |-> "", annotations |-> a] : a \in AnnotationMaps}

\* Outcomes of one List call: the listed items, or an error.
ListOutcomes ==
  {[err |-> "", items |-> n] : n \in 0..MaxCount}
    \cup {[err |-> "etcd timeout", items |-> 0]}

VARIABLES
  admitAll,      \* --admitAll flag
  kubeConfig,    \* --kubeconfig flag
  clientAuth,    \* --clientAuth flag
  port,          \* --port flag
  config,        \* the rest.Config the clientset was built from
  tlsClientAuth, \* tlsConfig.ClientAuth of the HTTPS server
  fatal,         \* the message of the glog.Fatalf that ended main
  pc,            \* position of main
  hpc,           \* webhookHandler: "idle", "lookup", "census", "done", "panic"
  req,           \* the HTTP request being served
  admReview,     \* the decoded AdmissionReview
  namespace,     \* the namespace object returned by the lookup
  idx,           \* position of the census loop in counters
  errList,       \* errList of validateNamespaceDeletion
  nonEmptyList,  \* nonEmptyList of validateNamespaceDeletion
  calls,         \* calls made on the clientset while serving req
  response,      \* what was written to the ResponseWriter
  written        \* number of bodies written to the ResponseWriter

mainVars == << admitAll, kubeConfig, clientAuth, port, config, tlsClientAuth, fatal, pc >>

handlerVars == << hpc, req, admReview, namespace, idx, errList, nonEmptyList,
                  calls, response, written >>

vars == << mainVars, handlerVars >>

NoConfig == [source |-> "none", path |-> ""]

NoResponse == [kind |-> "none", status |-> 0, allowed |-> FALSE, reason |-> <<>>]

NoNamespace == [err |-> "", annotations |-> [isNil |-> TRUE, m |-> {}]]

NoHTTPRequest == [Method |-> "", Path |-> "", Body |-> [valid |-> FALSE, Request |-> NilRequest]]

(***************************************************************************)
(* main: cluster-client configuration                                      *)
(***************************************************************************)
\* clientcmd.BuildConfigFromFlags(masterUrl, kubeconfigPath): with both empty
\* it uses the in-cluster configuration, otherwise it loads the file.
BuildConfigFromFlags(masterUrl, kubeconfigPath, inCluster, fileOk) ==
  IF kubeconfigPath = "" /\ masterUrl = ""
    THEN IF inCluster THEN [cfg |-> [source |-> "incluster", path |-> ""], err |-> ""]
         ELSE [cfg |-> NoConfig, err |-> "no configuration has been provided"]
    ELSE IF fileOk THEN [cfg |-> [source |-> "file", path |-> kubeconfigPath], err |-> ""]
         ELSE [cfg |-> NoConfig, err |-> "cannot load kubeconfig"]

\* rest.InClusterConfig()
InClusterConfig(inCluster) ==
  IF inCluster THEN [cfg |-> [source |-> "incluster", path |-> ""], err |-> ""]
  ELSE [cfg |-> NoConfig, err |-> "not running in-cluster"]

getKubernetesConfig(flagKubeConfig, inCluster, fileOk) ==
  IF flagKubeConfig = ""
    THEN BuildConfigFromFlags("", flagKubeConfig, inCluster, fileOk)
    ELSE InClusterConfig(inCluster)

\* glog.Fatalf: the process exits with the message.
Fatalf(msg) ==
  /\ pc' = "fatal"
  /\ fatal' = msg

\* flag.Parse(): the flags take the values of the command line.
ParseFlags ==
  /\ pc = "start"
  /\ admitAll' \in BOOLEAN
  /\ kubeConfig' \in {"", "/etc/kubeconfig"}
  /\ clientAuth' \in BOOLEAN
  /\ port' \in {"443", "8443"}
  /\ pc' = "config"
  /\ UNCHANGED << config, tlsClientAuth, fatal, handlerVars >>

\* config, err := getKubernetesConfig()
GetConfig ==
  /\ pc = "config"
  /\ \E inCluster \in BOOLEAN, fileOk \in BOOLEAN :
       LET r == getKubernetesConfig(kubeConfig, inCluster, fileOk) IN
         IF r.err # ""
           THEN /\ Fatalf("Error occurred while building the in-cluster kube-config")
                /\ config' = config
           ELSE /\ pc' = "clientset"
                /\ config' = r.cfg
                /\ fatal' = fatal
  /\ UNCHANGED << admitAll, kubeConfig, clientAuth, port, tlsClientAuth, handlerVars >>

\* clientset, err = kubernetes.NewForConfig(config)
NewClientset ==
  /\ pc = "clientset"
  /\ \E ok \in BOOLEAN :
       IF ok THEN pc' = "keypair" /\ fatal' = fatal
       ELSE Fatalf("Error occurred while initializing the client set")
  /\ UNCHANGED << admitAll, kubeConfig, clientAuth, port, config, tlsClientAuth, handlerVars >>

\* tls.LoadX509KeyPair(*httpsCertFile, *httpsKeyFile)
LoadKeyPair ==
  /\ pc = "keypair"
  /\ \E ok \in BOOLEAN :
       IF ok THEN pc' = "ca" /\ fatal' = fatal
       ELSE Fatalf("Unable to read the server cert and/or key file")
  /\ UNCHANGED << admitAll, kubeConfig, clientAuth, port, config, tlsClientAuth, handlerVars >>

\* ioutil.ReadFile(*clientCAFile) and the TLS configuration of the server.
LoadCA ==
  /\ pc = "ca"
  /\ \E ok \in BOOLEAN :
       IF ok
         THEN /\ pc' = "listen"
              /\ fatal' = fatal
              /\ tlsClientAuth' = IF clientAuth THEN "RequireAndVerifyClientCert"
                                   ELSE tlsClientAuth
         ELSE /\ Fatalf("Couldn't load file")
              /\ tlsClientAuth' = tlsClientAuth
  /\ UNCHANGED << admitAll, kubeConfig, clientAuth, port, config, handlerVars >>

\* srv.ListenAndServeTLS in its goroutine: serving, or glog.Fatal(err).
ListenAndServe ==
  /\ pc = "listen"
  /\ \E ok \in BOOLEAN :
       IF ok THEN pc' = "serving" /\ fatal' = fatal
       ELSE Fatalf("ListenAndServeTLS")
  /\ UNCHANGED << admitAll, kubeConfig, clientAuth, port, config, tlsClientAuth, handlerVars >>

\* SIGINT or SIGTERM: os.Exit(0).
Shutdown ==
  /\ pc = "serving"
  /\ pc' = "exited"
  /\ UNCHANGED << admitAll, kubeConfig, clientAuth, port, config, tlsClientAuth, fatal,
                  handlerVars >>

(***************************************************************************)
(* listener.go                                                             *)
(***************************************************************************)
\* json.NewDecoder(req.Body).Decode(&admReview): an error for bytes that are
\* not an AdmissionReview; a missing "request" member leaves Request nil.
Decode(body) ==
  IF ~body.valid
    THEN [err |-> "invalid character", admReview |-> [Request |-> NilRequest]]
    ELSE [err |-> "", admReview |-> [Request |-> body.Request]]

\* Outcome of a handler step that neither responds nor faults.
Continue(review) ==
  [hpc |-> "lookup", admReview |-> review, response |-> NoResponse, written |-> 0]

\* A nil-pointer dereference inside the handler: net/http recovers the panic
\* and drops the connection, nothing is written.
Panic(review) ==
  [hpc |-> "panic", admReview |-> review, response |-> NoResponse, written |-> 0]

\* http.Error(rw, msg, status)
HttpError(status) ==
  [hpc |-> "done", admReview |-> [Request |-> NilRequest],
   response |-> [kind |-> "http", status |-> status, allowed |-> FALSE, reason |-> <<>>],
   written |-> 1]

\* writeResponse reads admReview.Request.Operation first, then encodes the
\* review with Response{Allowed, Result.Reason} into the body.
writeResponse(review, allowed, errorMsg) ==
  IF review.Request.isNil
    THEN Panic(review)
    ELSE [hpc |-> "done", admReview |-> review,
          response |-> [kind |-> "review", status |-> 200,
                        allowed |-> allowed, reason |-> errorMsg],
          written |-> 1]

\* One clause of a reason text: the format used, its string arguments and
\* its list argument.
Clause(format, args, items) == [clause |-> format, args |-> args, items |-> items]

\* Variant: the test of the flag is inverted.
AdmitAllSet_Inverted(flag) == flag = FALSE

\* *admitAll == true
AdmitAllSet(flag) == flag = TRUE

\* Variant: only the resource name is compared, not group and version.
IsNotNamespaceResource_NameOnly(resource) ==
  resource.Resource # namespaceResourceType.Resource

\* admReview.Request.Resource != namespaceResourceType
IsNotNamespaceResource(resource) == resource # namespaceResourceType

\* Variant: Update passes the operation gate as well.
IsNotDelete_UpdatePasses(operation) == operation \notin {Delete, "UPDATE"}

\* admReview.Request.Operation != admissionv1.Delete
IsNotDelete(operation) == operation # Delete

\* webhookHandler from its entry to the namespace lookup.
webhookHandlerEntry(flagAdmitAll, r) ==
  IF r.Method # "POST" THEN HttpError(405)
  ELSE IF r.Path # "/" THEN HttpError(404)
  ELSE
    LET d == Decode(r.Body)
        review == d.admReview
    IN
      IF d.err # ""
        THEN writeResponse([Request |-> NewRequest], FALSE,
                           << Clause("Failed to decode the request body json into an AdmissionReview resource: %s", << d.err >>, <<>>) >>)
      ELSE IF review.Request.isNil
        THEN Panic(review)     \* the Infof of line 186 reads Request.Operation
      ELSE IF AdmitAllSet(flagAdmitAll)
        THEN writeResponse(review, TRUE, <<>>)
      ELSE IF IsNotNamespaceResource(review.Request.Resource)
        THEN writeResponse(review, FALSE,
               << Clause("Incoming resource is not a Namespace: %v",
                         << review.Request.Resource.Group,
                            review.Request.Resource.Version,
                            review.Request.Resource.Resource >>, <<>>) >>)
      ELSE IF IsNotDelete(review.Request.Operation)
        THEN writeResponse(review, FALSE,
               << Clause("Incoming operation is %v on namespace %s. Only DELETE is currently supported.",
                         << review.Request.Operation, review.Request.Name >>, <<>>) >>)
      ELSE Continue(review)

\* The handler accepts a request and runs until it responds, faults or
\* reaches its first call on the clientset.
HandleRequest ==
  /\ pc = "serving"
  /\ hpc = "idle"
  /\ \E r \in HTTPRequests :
       LET o == webhookHandlerEntry(admitAll, r) IN
         /\ req' = r
         /\ hpc' = o.hpc
         /\ admReview' = o.admReview
         /\ response' = o.response
         /\ written' = o.written
  /\ namespace' = NoNamespace
  /\ idx' = 0
  /\ errList' = <<>>
  /\ nonEmptyList' = <<>>
  /\ calls' = <<>>
  /\ UNCHANGED mainVars

\* Variant: every lookup error is taken for not-found.
IsNotFound_AnyError(err) == err # ""

\* apiErrors.IsNotFound(err)
IsNotFound(err) == err = "NotFound"

\* annotations[key] of a Go map: the zero value when the key is absent.
MapGet(m, key) ==
  IF \E p \in m : p[1] = key THEN (CHOOSE p \in m : p[1] = key)[2] ELSE ""

\* Variant: the annotation value is compared without regard to case.
HasBypass_AnyCase(annotations) ==
  /\ ~annotations.isNil
  /\ MapGet(annotations.m, bypassAnnotationKey) \in {"true", "True", "TRUE"}

\* annotations != nil && annotations[bypassAnnotationKey] == "true"
HasBypass(annotations) ==
  /\ ~annotations.isNil
  /\ MapGet(annotations.m, bypassAnnotationKey) = "true"

\* The record of one call on the clientset.
Call(api, ns, err, num) == [api |-> api, ns |-> ns, err |-> err, num |-> num]

\* The handler's verdict on the outcome of the namespace lookup; it goes on
\* to the census when the lookup succeeds without the bypass annotation.
afterLookup(review, out) ==
  IF out.err # ""
    THEN IF IsNotFound(out.err)
           THEN writeResponse(review, TRUE, <<>>)
           ELSE writeResponse(review, FALSE,
                  << Clause("Error occurred while retrieving the namespace %s: %s",
                            << review.Request.Name, out.err >>, <<>>) >>)
  ELSE IF HasBypass(out.annotations)
    THEN writeResponse(review, TRUE, <<>>)
  ELSE [hpc |-> "census", admReview |-> review, response |-> NoResponse, written |-> 0]

\* webhookHandler: the namespace lookup and the bypass check.
NamespaceLookup ==
  /\ hpc = "lookup"
  /\ \E out \in GetOutcomes :
       LET o == afterLookup(admReview, out) IN
         /\ calls' = Append(calls, Call("namespaces", admReview.Request.Name, out.err, 0))
         /\ namespace' = out
         /\ hpc' = o.hpc
         /\ response' = o.response
         /\ written' = o.written
         /\ idx' = IF o.hpc = "census" THEN 1 ELSE idx
  /\ UNCHANGED << mainVars, req, admReview, errList, nonEmptyList >>

\* podCounter .. autoScaleCounter: (0, err) on a failed List, else
\* (len(list.Items), nil).
counter(out) ==
  IF out.err # "" THEN [num |-> 0, err |-> out.err]
  ELSE [num |-> out.items, err |-> ""]

\* Variant: a failed query is skipped without being recorded.
LoopBody_DropErrors(kind, res, errs, nonEmpty) ==
  IF res.err # ""
    THEN [errList |-> errs, nonEmptyList |-> nonEmpty]
  ELSE IF res.num > 0
    THEN [errList |-> errs,
          nonEmptyList |-> Append(nonEmpty, [kind |-> kind, num |-> res.num, err |-> ""])]
  ELSE [errList |-> errs, nonEmptyList |-> nonEmpty]

\* The body of the census loop for one kind.
LoopBody(kind, res, errs, nonEmpty) ==
  IF res.err # ""
    THEN [errList |-> Append(errs, [kind |-> kind, num |-> 0, err |-> res.err]),
          nonEmptyList |-> nonEmpty]
  ELSE IF res.num > 0
    THEN [errList |-> errs,
          nonEmptyList |-> Append(nonEmpty, [kind |-> kind, num |-> res.num, err |-> ""])]
  ELSE [errList |-> errs, nonEmptyList |-> nonEmpty]

\* Variant: the loop is left at the first failed query.
NextCounter_BreakOnError(i, res) ==
  IF res.err # "" THEN Len(counters) + 1 ELSE i + 1

\* for _, c := range counters: the position after the iteration at i.
NextCounter(i, res) == i + 1

\* The three formats validateNamespaceDeletion appends to errStr.
nonEmptyFormat == "The namespace %s you are trying to remove contains one or more of these resources: %v. Please delete them and try again."

errListFormat == "The following error(s) occurred while validating the DELETE operation on the namespace %s: %v."

bypassFormat == " WARNING: If you know what you are doing, run kubectl annotate namespace %s %s=true to bypass this policy check."

\* Variant: the clause of failed queries is put before the non-empty kinds.
errStr_ErrorsFirst(ns, nonEmpty, errs) ==
  LET s1 == IF Len(errs) > 0
              THEN << [clause |-> errListFormat, args |-> << ns >>, items |-> errs] >>
              ELSE <<>>
      s2 == IF Len(nonEmpty) > 0
              THEN s1 \o << [clause |-> nonEmptyFormat, args |-> << ns >>, items |-> nonEmpty] >>
              ELSE s1
  IN IF s2 # <<>>
       THEN s2 \o << [clause |-> bypassFormat, args |-> << ns, bypassAnnotationKey >>, items |-> <<>>] >>
       ELSE s2

\* The tail of validateNamespaceDeletion: errStr, empty for a nil error.
errStr(ns, nonEmpty, errs) ==
  LET s1 == IF Len(nonEmpty) > 0
              THEN << Clause(nonEmptyFormat, << ns >>, nonEmpty) >>
              ELSE <<>>
      s2 == IF Len(errs) > 0
              THEN s1 \o << Clause(errListFormat, << ns >>, errs) >>
              ELSE s1
  IN IF s2 # <<>>
       THEN s2 \o << Clause(bypassFormat, << ns, bypassAnnotationKey >>, <<>>) >>
       ELSE s2

\* validateNamespaceDeletion: one iteration of the loop over counters; the
\* last iteration is followed by the fold into the handler's response.
CountQuery ==
  /\ hpc = "census"
  /\ idx \in 1..Len(counters)
  /\ \E out \in ListOutcomes :
       LET ns == admReview.Request.Name
           kind == counters[idx]
           res == counter(out)
           acc == LoopBody(kind, res, errList, nonEmptyList)
           next == NextCounter(idx, res)
       IN
         /\ calls' = Append(calls, Call(kind, ns, res.err, res.num))
         /\ errList' = acc.errList
         /\ nonEmptyList' = acc.nonEmptyList
         /\ idx' = next
         /\ IF next > Len(counters)
              THEN LET err == errStr(ns, acc.nonEmptyList, acc.errList)
                       o == IF err # <<>>
                              THEN writeResponse(admReview, FALSE, err)
                              ELSE writeResponse(admReview, TRUE, <<>>)
                   IN /\ hpc' = o.hpc
                      /\ response' = o.response
                      /\ written' = o.written
              ELSE UNCHANGED << hpc, response, written >>
  /\ UNCHANGED << mainVars, req, admReview, namespace >>

\* The handler returns (or its panic is recovered by the server): the
\* locals of the invocation are gone and the server awaits the next request.
Return ==
  /\ hpc \in {"done", "panic"}
  /\ hpc' = "idle"
  /\ req' = NoHTTPRequest
  /\ admReview' = [Request |-> NilRequest]
  /\ namespace' = NoNamespace
  /\ idx' = 0
  /\ errList' = <<>>
  /\ nonEmptyList' = <<>>
  /\ calls' = <<>>
  /\ response' = NoResponse
  /\ written' = 0
  /\ UNCHANGED mainVars

(***************************************************************************)
(* Specification                                                           *)
(***************************************************************************)
\* No request is being served.
HandlerIdle ==
  /\ hpc = "idle"
  /\ req = NoHTTPRequest
  /\ admReview = [Request |-> NilRequest]
  /\ namespace = NoNamespace
  /\ idx = 0
  /\ errList = <<>>
  /\ nonEmptyList = <<>>
  /\ calls = <<>>
  /\ response = NoResponse
  /\ written = 0

\* The process at the entry of main: every flag has its default.
InitMain ==
  /\ admitAll = FALSE
  /\ kubeConfig = ""
  /\ clientAuth = FALSE
  /\ port = "443"
  /\ config = NoConfig
  /\ tlsClientAuth = "NoClientCert"
  /\ fatal = ""
  /\ pc = "start"
  /\ HandlerIdle

NextMain ==
  \/ ParseFlags
  \/ GetConfig
  \/ NewClientset
  \/ LoadKeyPair
  \/ LoadCA
  \/ ListenAndServe
  \/ Shutdown

\* main, from its entry to the exit of the process.
SpecMain == InitMain /\ [][NextMain]_vars

\* The server listening, started in the cluster with default flags but for
\* --admitAll.
Init ==
  /\ admitAll \in BOOLEAN
  /\ kubeConfig = ""
  /\ clientAuth = FALSE
  /\ port = "443"
  /\ config = [source |-> "incluster", path |-> ""]
  /\ tlsClientAuth = "NoClientCert"
  /\ fatal = ""
  /\ pc = "serving"
  /\ HandlerIdle

Next ==
  \/ HandleRequest
  \/ NamespaceLookup
  \/ CountQuery
  \/ Return

\* The webhook handler serving requests.
Spec == Init /\ [][Next]_vars

(***************************************************************************)
(* Vocabulary of the properties                                            *)
(***************************************************************************)
InSeq(x, s) == \E k \in 1..Len(s) : s[k] = x

\* The handler is serving, or has served, a POST on the webhook path.
WebhookPost == req.Method = "POST" /\ req.Path = "/"

\* The body carries a request object.
HasRequest == req.Body.valid /\ ~req.Body.Request.isNil

\* A Delete review on the namespaces resource type with admit-all disabled.
DeleteReview ==
  /\ WebhookPost
  /\ HasRequest
  /\ ~admitAll
  /\ req.Body.Request.Resource = namespaceResourceType
  /\ req.Body.Request.Operation = "DELETE"

LookupDone == Len(calls) >= 1 /\ calls[1].api = "namespaces"

LookupSucceeded == LookupDone /\ calls[1].err = ""

\* The looked-up namespace carries the bypass annotation with value "true".
BypassValueTrue == << bypassAnnotationKey, "true" >> \in namespace.annotations.m

\* The count queries made so far, in the order they were made.
CensusCalls == SelectSeq(calls, LAMBDA c : c.api # "namespaces")

KindClean(kind) ==
  \E j \in 1..Len(calls) : calls[j].api = kind /\ calls[j].err = "" /\ calls[j].num = 0

KindFailed(kind) ==
  \E j \in 1..Len(calls) : calls[j].api = kind /\ calls[j].err # ""

KindNonEmpty(kind) ==
  \E j \in 1..Len(calls) : calls[j].api = kind /\ calls[j].err = "" /\ calls[j].num > 0

KindIndex(kind) == CHOOSE k \in 1..Len(counters) : counters[k] = kind

Verdict(allowed) ==
  /\ hpc = "done"
  /\ written = 1
  /\ response.kind = "review"
  /\ response.allowed = allowed

(***************************************************************************)
(* C1: a Delete review on namespaces (admit-all off) whose lookup          *)
(* succeeds and whose namespace has no bypass annotation "true" is allowed *)
(* if and only if all eight count queries succeed with count 0; a single   *)
(* failed query or a single non-zero count gives deny.                     *)
(***************************************************************************)
C1_AllowIffCensusClean ==
  (hpc = "done" /\ DeleteReview /\ LookupSucceeded /\ ~BypassValueTrue)
    => /\ response.kind = "review"
       /\ response.allowed <=> (\A k \in 1..Len(counters) : KindClean(counters[k]))
       /\ (\E k \in 1..Len(counters) : KindFailed(counters[k]) \/ KindNonEmpty(counters[k]))
            => ~response.allowed

\* Scenario E: every kind is empty but the ingresses query fails; deny.
C1_Witness ==
  /\ DeleteReview /\ LookupSucceeded /\ ~BypassValueTrue
  /\ Verdict(FALSE)
  /\ KindFailed("ingresses")
  /\ \A k \in 1..Len(counters) : counters[k] # "ingresses" => KindClean(counters[k])

(***************************************************************************)
(* C2: a Delete review whose namespace has the bypass annotation with      *)
(* value exactly "true" is allowed and no count query is ever made; any    *)
(* other value, or no annotation, does not bypass: the census is run.      *)
(***************************************************************************)
C2_BypassExactlyTrue ==
  (DeleteReview /\ LookupSucceeded)
    => IF BypassValueTrue
         THEN Verdict(TRUE) /\ Len(CensusCalls) = 0 /\ idx = 0
         ELSE \/ hpc = "census"
              \/ hpc = "done" /\ Len(CensusCalls) = Len(counters)

\* Scenario A: the annotation is "true"; allowed after the lookup alone.
C2_Witness ==
  /\ DeleteReview /\ LookupSucceeded /\ BypassValueTrue
  /\ Verdict(TRUE)
  /\ Len(calls) = 1

(***************************************************************************)
(* C3: with admit-all off, a review whose resource type differs from       *)
(* (group "", version v1, resource namespaces) in any field is denied      *)
(* with a reason naming the resource type, whatever the operation, and     *)
(* neither the lookup nor a count query is made.                           *)
(***************************************************************************)
C3_ResourceGate ==
  (WebhookPost /\ HasRequest /\ ~admitAll
     /\ req.Body.Request.Resource # namespaceResourceType)
    => /\ Verdict(FALSE)
       /\ Len(response.reason) = 1
       /\ response.reason[1].args = << req.Body.Request.Resource.Group,
                                       req.Body.Request.Resource.Version,
                                       req.Body.Request.Resource.Resource >>
       /\ calls = <<>>

\* A Delete of a "namespaces" resource of another group is denied unseen.
C3_Witness ==
  /\ WebhookPost /\ HasRequest /\ ~admitAll
  /\ req.Body.Request.Resource = [Group |-> "apps", Version |-> "v1", Resource |-> "namespaces"]
  /\ req.Body.Request.Operation = "DELETE"
  /\ Verdict(FALSE)
  /\ InSeq("apps", response.reason[1].args)

(***************************************************************************)
(* C4: with admit-all off, a review on namespaces whose operation is not   *)
(* Delete is denied with a reason naming the operation and the namespace,  *)
(* before any namespace lookup.                                            *)
(***************************************************************************)
C4_OperationGate ==
  (WebhookPost /\ HasRequest /\ ~admitAll
     /\ req.Body.Request.Resource = namespaceResourceType
     /\ req.Body.Request.Operation # "DELETE")
    => /\ Verdict(FALSE)
       /\ Len(response.reason) = 1
       /\ InSeq(req.Body.Request.Operation, response.reason[1].args)
       /\ InSeq(req.Body.Request.Name, response.reason[1].args)
       /\ calls = <<>>

C4_Witness ==
  /\ WebhookPost /\ HasRequest /\ ~admitAll
  /\ req.Body.Request.Resource = namespaceResourceType
  /\ req.Body.Request.Operation = "UPDATE"
  /\ req.Body.Request.Name = "ns3"
  /\ Verdict(FALSE)
  /\ response.reason[1].args = << "UPDATE", "ns3" >>

(***************************************************************************)
(* C5: for a Delete review on namespaces, a not-found lookup gives allow,  *)
(* any other lookup error gives deny with the error text in the reason;    *)
(* in both cases no count query is made.                                   *)
(***************************************************************************)
C5_LookupFailure ==
  (DeleteReview /\ LookupDone /\ calls[1].err # "")
    => /\ calls[1].err = "NotFound" => Verdict(TRUE)
       /\ calls[1].err # "NotFound"
            => /\ Verdict(FALSE)
               /\ Len(response.reason) = 1
               /\ InSeq(calls[1].err, response.reason[1].args)
       /\ Len(calls) = 1
       /\ idx = 0

C5_Witness ==
  /\ DeleteReview /\ LookupDone
  /\ calls[1].err = "Timeout"
  /\ Verdict(FALSE)
  /\ InSeq("Timeout", response.reason[1].args)

(***************************************************************************)
(* C6 (as stated): with the admit-all flag set, the verdict is allow for   *)
(* every request received on the webhook path, whether or not its body is  *)
(* well-formed, and neither the lookup nor the census is invoked.          *)
(***************************************************************************)
C6_Original ==
  (admitAll /\ WebhookPost /\ hpc = "done")
    => Verdict(TRUE) /\ calls = <<>>

(***************************************************************************)
(* C6 (amended): with the admit-all flag set, every verdict written for a  *)
(* body that decodes is allow with an empty reason, whatever the resource  *)
(* type, the operation and the namespace, and neither the lookup nor the   *)
(* census is invoked; a body that fails to decode is denied with a reason, *)
(* the decoding preceding the test of the flag.                            *)
(***************************************************************************)
C6_AdmitAllAfterDecode ==
  admitAll
    => /\ calls = <<>>
       /\ hpc \notin {"lookup", "census"}
       /\ (hpc = "done" /\ WebhookPost /\ req.Body.valid)
            => Verdict(TRUE) /\ response.reason = <<>>
       /\ (hpc = "done" /\ WebhookPost /\ ~req.Body.valid)
            => Verdict(FALSE) /\ response.reason # <<>>

\* Admit-all lets through a Create of a pod, which both gates would deny.
C6_Witness ==
  /\ admitAll /\ WebhookPost /\ HasRequest
  /\ req.Body.Request.Resource.Resource = "pods"
  /\ req.Body.Request.Operation = "CREATE"
  /\ Verdict(TRUE)
  /\ calls = <<>>

(***************************************************************************)
(* C7: every POST to the webhook path ends with exactly one review         *)
(* envelope carrying a verdict, never with a fault and never without a     *)
(* response; a body that is not a review, or a review without a request    *)
(* object, is answered with a deny verdict whose reason is non-empty.      *)
(***************************************************************************)
C7_AlwaysOneVerdict ==
  (WebhookPost /\ hpc \in {"done", "panic"})
    => /\ hpc = "done"
       /\ written = 1
       /\ response.kind = "review"
       /\ ~HasRequest => (~response.allowed /\ response.reason # <<>>)

(***************************************************************************)
(* C8: once the census is invoked it calls the count query of each of the  *)
(* eight kinds exactly once, in the declared order and for the reviewed    *)
(* namespace, whatever the earlier queries returned; no query is skipped   *)
(* or retried, and the census ends with a verdict, never with a fault.     *)
(***************************************************************************)
C8_FullOrderedScan ==
  (hpc = "census" \/ idx >= 1)
    => LET made == CensusCalls IN
         /\ hpc \in {"census", "done"}
         /\ idx \in 1..(Len(counters) + 1)
         /\ Len(made) = idx - 1
         /\ \A j \in 1..Len(made) :
              /\ made[j].api = counters[j]
              /\ made[j].ns = req.Body.Request.Name
         /\ hpc = "done"
              => /\ Len(made) = Len(counters)
                 /\ written = 1
                 /\ response.kind = "review"

\* The first query fails and the second finds objects; all eight still ran.
C8_Witness ==
  /\ hpc = "done"
  /\ Len(CensusCalls) = Len(counters)
  /\ CensusCalls[1].err # ""
  /\ CensusCalls[2].num > 0
  /\ CensusCalls[Len(counters)].api = "horizontalpodautoscalers"

(***************************************************************************)
(* C9: a denial reason of the census step is: first, only when some kind   *)
(* is non-empty, the clause listing each such kind with its count; then,   *)
(* only when some query failed, the clause listing each failed kind with   *)
(* its error; then always the bypass instruction naming the namespace and  *)
(* the annotation key. Inside a clause the kinds follow the declared       *)
(* order, and no kind is in both clauses.                                  *)
(***************************************************************************)
InDeclaredOrder(items) ==
  \A a, b \in 1..Len(items) :
    a < b => KindIndex(items[a].kind) < KindIndex(items[b].kind)

CensusDenial ==
  /\ hpc = "done"
  /\ idx > Len(counters)
  /\ response.kind = "review"
  /\ ~response.allowed

C9_ReasonComposition ==
  CensusDenial =>
    LET r == response.reason
        n == Len(r)
        ns == req.Body.Request.Name
        made == CensusCalls
        anyNonEmpty == \E k \in 1..Len(counters) : KindNonEmpty(counters[k])
        anyFailed == \E k \in 1..Len(counters) : KindFailed(counters[k])
        expected ==
          (IF anyNonEmpty THEN << nonEmptyFormat >> ELSE <<>>)
            \o (IF anyFailed THEN << errListFormat >> ELSE <<>>)
            \o << bypassFormat >>
    IN
      /\ n = Len(expected)
      /\ \A k \in 1..n : r[k].clause = expected[k]
      /\ r[n].args = << ns, bypassAnnotationKey >>
      /\ \A k \in 1..(n - 1) :
           /\ r[k].args = << ns >>
           /\ Len(r[k].items) >= 1
           /\ InDeclaredOrder(r[k].items)
      /\ \A c \in 1..Len(counters) :
           LET listedNonEmpty ==
                 \E k \in 1..n : r[k].clause = nonEmptyFormat
                   /\ \E a \in 1..Len(r[k].items) :
                        /\ r[k].items[a].kind = counters[c]
                        /\ r[k].items[a].num = made[c].num
               listedFailed ==
                 \E k \in 1..n : r[k].clause = errListFormat
                   /\ \E a \in 1..Len(r[k].items) :
                        /\ r[k].items[a].kind = counters[c]
                        /\ r[k].items[a].err = made[c].err
           IN /\ listedNonEmpty <=> KindNonEmpty(counters[c])
              /\ listedFailed <=> KindFailed(counters[c])
              /\ ~(listedNonEmpty /\ listedFailed)

\* Pods and deployments are non-empty and ingresses failed: three clauses.
C9_Witness ==
  /\ CensusDenial
  /\ Len(response.reason) = 3
  /\ Len(response.reason[1].items) = 2
  /\ response.reason[1].items[1].kind = "pods"
  /\ response.reason[1].items[2].kind = "deployments"
  /\ Len(response.reason[2].items) = 1
  /\ response.reason[2].items[1].kind = "ingresses"

(***************************************************************************)
(* C10: when --kubeconfig names a path the client configuration is built   *)
(* from that kubeconfig file; when it is empty the in-cluster              *)
(* configuration is used.                                                  *)
(***************************************************************************)
C10_KubeConfigSelection ==
  config # NoConfig
    => IF kubeConfig # ""
         THEN config = [source |-> "file", path |-> kubeConfig]
         ELSE config.source = "incluster"

====
